---- MODULE Spec2Model ----
(***************************************************************************)
(* ispf: a positional binary codec on top of serde.                        *)
(*                                                                         *)
(* The model follows src/src/ser.rs (Serializer), src/src/de.rs            *)
(* (Deserializer and its SeqAccess implementations) and src/src/lib.rs     *)
(* (the str_lvN / vec_lvN field policies).  One to_bytes call encodes a    *)
(* record value; two from_bytes calls decode a buffer and the same buffer  *)
(* followed by extra bytes.  Every handler of the code is one action; the  *)
(* recursion of serde's traversal is an explicit stack of frames.          *)
(*                                                                         *)
(* Numbers: a byte is 0..255.  A usize (a length or count read from a      *)
(* prefix) is kept as its 8 little-endian base-256 digits, so that 64-bit  *)
(* wrap-around is exact.  Values of u16/u32/u64 fields are naturals.       *)
(***************************************************************************)
EXTENDS Integers, Sequences, FiniteSets, TLC

(***************************************************************************)
(* Bounds of the model.                                                    *)
(***************************************************************************)
\* longest raw input buffer handed to from_bytes
MaxBuf == 3
\* longest short string / vector in an encoded value
MaxLen == 2
\* most elements one sequence frame may collect before the model stops it
MaxElems == 4

(***************************************************************************)
(* Schemas.  A type is [k, w, sub]: its kind, the width in bytes of its    *)
(* prefix (0 when it has none) and its component types (a sequence's       *)
(* element type, a record's field types in declaration order).             *)
(***************************************************************************)
Ty(k, w, sub) == [k |-> k, w |-> w, sub |-> sub]
U8 == Ty("u8", 0, <<>>)
U16 == Ty("u16", 0, <<>>)
U32 == Ty("u32", 0, <<>>)
U64 == Ty("u64", 0, <<>>)
\* String: the default, null-terminated
Str == Ty("str", 0, <<>>)
\* #[serde(with = "ispf::str_lvN")], N = 8 * w
StrLv(w) == Ty("strlv", w, <<>>)
\* #[serde(with = "ispf::vec_lvN")]
VecLv(w, e) == Ty("vec", w, <<e>>)
\* the "vecNb" policies of deserialize_tuple_struct
VecLvB(w, e) == Ty("vecb", w, <<e>>)
\* a struct deriving Serialize/Deserialize
Rec(fields) == Ty("struct", 0, fields)

IsLeaf(ty) == ty.k \in {"u8", "u16", "u32", "u64", "str", "strlv", "bytes"}

\* the type has a field that is read with deserialize_bytes
RECURSIVE HasBytes(_)
HasBytes(ty) == ty.k = "bytes" \/ \E i \in 1..Len(ty.sub) : HasBytes(ty.sub[i])

\* the kinds whose serialize_* and deserialize_* are unimplemented!()
Unsupported ==
    {"bool", "i8", "i16", "i32", "i64", "f32", "f64", "char", "option", "unit",
     "map", "enum"}
Bool == Ty("bool", 0, <<>>)
\* a byte slice written with serialize_bytes and read with deserialize_bytes
\* by a visitor that takes visit_bytes
Bytes == Ty("bytes", 0, <<>>)
\* Option<T>
Opt == Ty("option", 0, <<>>)

\* std::mem::size_of of the unsigned integers
SizeOf(k) == CASE k = "u8" -> 1 [] k = "u16" -> 2 [] k = "u32" -> 4 [] k = "u64" -> 8

Rep(b, n) == [i \in 1..n |-> b]

(***************************************************************************)
(* Endian codec: to_le_bytes / from_le_bytes.                              *)
(***************************************************************************)
\* A u16/u32/u64 is its base-256 numeral of 2/4/8 digits, most significant
\* digit first, so that every value of the width can be written down; a u8 is
\* a natural below 256.

\* the numeral of k digits of a natural below 2^24 (its low k bytes)
Numeral(n, k) == [i \in 1..k |-> IF k - i > 2 THEN 0 ELSE (n \div (256 ^ (k - i))) % 256]

\* the digits from the most significant one on
ToBeBytes(v, n) == [i \in 1..n |-> v[i]]

\* uN::to_le_bytes: the digits from the least significant one on
ToLeBytes(v, n) == [i \in 1..n |-> v[n + 1 - i]]

\* uN::from_le_bytes
FromLeBytes(b) == [i \in 1..Len(b) |-> b[Len(b) + 1 - i]]

\* NumSer for LittleEndian
NumSer_serialize(v, n) == ToLeBytes(v, n)

\* NumDe for LittleEndian
NumDe_deserialize(b) == FromLeBytes(b)

(***************************************************************************)
(* usize arithmetic on 8 base-256 digits, least significant first.         *)
(***************************************************************************)
USizeBytes == 8
UZero == Rep(0, USizeBytes)
UMax == Rep(255, USizeBytes)

\* uN -> usize (`as usize`): zero extension
AsUsize(bytes) == bytes \o Rep(0, USizeBytes - Len(bytes))

\* a natural below 2^24 as a usize
RECURSIVE NatDigits(_, _)
NatDigits(n, k) == IF k = 0 THEN <<>> ELSE <<n % 256>> \o NatDigits(n \div 256, k - 1)
ToUsize(n) == NatDigits(n, USizeBytes)

\* the usize is below 2^24, so that it can be read as a natural
FitsNat(d) == \A i \in 4..USizeBytes : d[i] = 0
NatOf(d) == d[1] + 256 * d[2] + 65536 * d[3]
\* d <= m for a natural m below 2^24
ULeq(d, m) == FitsNat(d) /\ NatOf(d) <= m

\* d + m for a natural m: [v |-> the wrapped sum, carry |-> the addition overflowed]
RECURSIVE UAddFrom(_, _, _)
UAddFrom(d, m, i) ==
    IF i > USizeBytes THEN [v |-> <<>>, carry |-> m > 0]
    ELSE LET s == d[i] + (m % 256)
             r == UAddFrom(d, (m \div 256) + (s \div 256), i + 1)
         IN [v |-> <<s % 256>> \o r.v, carry |-> r.carry]
UAdd(d, m) == UAddFrom(d, m, 1)

\* a subtraction that leaves the counter as it is
USub_none(d, m) == [v |-> d, borrow |-> FALSE]

\* d - m for a natural m: [v |-> the wrapped difference, borrow |-> it underflowed]
RECURSIVE USubFrom(_, _, _)
USubFrom(d, m, i) ==
    IF i > USizeBytes THEN [v |-> <<>>, borrow |-> m > 0]
    ELSE LET s == d[i] - (m % 256)
             b == IF s < 0 THEN 1 ELSE 0
             r == USubFrom(d, (m \div 256) + b, i + 1)
         IN [v |-> <<(s + 256) % 256>> \o r.v, borrow |-> r.borrow]
USub(d, m) == USubFrom(d, m, 1)

(***************************************************************************)
(* std::str::from_utf8: the well-formed byte sequences of UTF-8.           *)
(***************************************************************************)
IsCont(b) == b >= 128 /\ b <= 191

\* the first index from i on that holds a non-ASCII byte, or Len(s) + 1
NextNonAscii(s, i) ==
    LET hi == {j \in i..Len(s) : s[j] >= 128}
    IN IF hi = {} THEN Len(s) + 1 ELSE CHOOSE j \in hi : \A k \in hi : j <= k

RECURSIVE Utf8From(_, _)
Utf8From(s, i) ==
    IF i > Len(s) THEN TRUE
    ELSE LET b == s[i]
             n == Len(s) - i
         IN CASE b < 128 -> Utf8From(s, NextNonAscii(s, i))
              [] b >= 194 /\ b <= 223 ->
                    n >= 1 /\ IsCont(s[i + 1]) /\ Utf8From(s, i + 2)
              [] b >= 224 /\ b <= 239 ->
                    /\ n >= 2
                    /\ IsCont(s[i + 1]) /\ IsCont(s[i + 2])
                    /\ (b = 224 => s[i + 1] >= 160)
                    /\ (b = 237 => s[i + 1] <= 159)
                    /\ Utf8From(s, i + 3)
              [] b >= 240 /\ b <= 244 ->
                    /\ n >= 3
                    /\ IsCont(s[i + 1]) /\ IsCont(s[i + 2]) /\ IsCont(s[i + 3])
                    /\ (b = 240 => s[i + 1] >= 144)
                    /\ (b = 244 => s[i + 1] <= 143)
                    /\ Utf8From(s, i + 4)
              [] OTHER -> FALSE
from_utf8(s) == Utf8From(s, 1)

(***************************************************************************)
(* Results.  A decoder returns [st, v, e, rest]: "ok" with the value and   *)
(* the cursor after it, "err" with an Error variant, or "panic" (the       *)
(* thread unwinds: an index or slice out of range, an arithmetic overflow  *)
(* under overflow checks, unimplemented!()).                               *)
(***************************************************************************)
DOk(v, rest) == [st |-> "ok", v |-> v, e |-> "none", rest |-> rest]
DErr(e, rest) == [st |-> "err", v |-> <<>>, e |-> e, rest |-> rest]
DPanic(why, rest) == [st |-> "panic", v |-> <<>>, e |-> why, rest |-> rest]

\* an advance that leaves the last consumed byte under the cursor
DropN_rewind(s, n) == SubSeq(s, n, Len(s))

DropN(s, n) == SubSeq(s, n + 1, Len(s))

\* <[u8; N]>::try_from(&[u8]): succeeds when the slice holds exactly N bytes
try_into(bytes, n) == Len(bytes) = n

(***************************************************************************)
(* Primitive decoders (impl de::Deserializer for &mut Deserializer).       *)
(***************************************************************************)
\* a u8 taken from the end of the input
deserialize_u8_last(input) ==
    IF Len(input) < 1 THEN DPanic("index out of bounds", input)
    ELSE DOk(input[Len(input)], DropN(input, 1))

deserialize_u8(input) ==
    IF Len(input) < 1 THEN DPanic("index out of bounds", input)
    ELSE DOk(input[1], DropN(input, 1))

\* deserialize_u16 / deserialize_u32 / deserialize_u64, n = 2, 4, 8
deserialize_un(n, input) ==
    IF Len(input) < n THEN DPanic("slice end out of range", input)
    ELSE LET bytes == SubSeq(input, 1, n)
         IN IF ~try_into(bytes, n) THEN DErr("Eof", input)
            ELSE DOk(NumDe_deserialize(bytes), DropN(input, n))

\* the loop of deserialize_str (i = 0; loop { if input[i] == 0 { break } i += 1 }):
\* the index of the first 0x00, or 0 when the index runs off the end of the slice
ScanNul(input) ==
    LET z == {i \in 1..Len(input) : input[i] = 0}
    IN IF z = {} THEN 0 ELSE CHOOSE i \in z : \A j \in z : i <= j

deserialize_str(input) ==
    LET i == ScanNul(input)
    IN IF i = 0 THEN DPanic("index out of bounds", input)
       ELSE LET s == SubSeq(input, 1, i - 1)
            IN IF ~from_utf8(s) THEN DErr("ExpectedString", input)
               ELSE DOk(s, DropN(input, i))

\* ReadSize for u8/u16/u32/u64 (w = 1, 2, 4, 8): the prefix as a usize
read_size(w, bytes) ==
    IF w = 1
    THEN IF bytes = <<>> THEN [ok |-> FALSE, v |-> UZero]
         ELSE [ok |-> TRUE, v |-> AsUsize(<<bytes[1]>>)]
    ELSE IF ~try_into(bytes, w) THEN [ok |-> FALSE, v |-> UZero]
         ELSE [ok |-> TRUE, v |-> AsUsize(bytes)]

\* Deserializer::read_tlv_string::<T>, w = size_of::<T>(); oc: the build
\* checks arithmetic overflow (debug) or wraps (release)
read_tlv_string(w, input, oc) ==
    IF Len(input) < w THEN DPanic("slice end out of range", input)
    ELSE LET len == read_size(w, SubSeq(input, 1, w))
             end == UAdd(len.v, w)
         IN IF ~len.ok THEN DErr("ExpectedInteger", input)
            ELSE IF end.carry /\ oc THEN DPanic("add overflow", input)
            ELSE IF ~ULeq(end.v, Len(input)) THEN DPanic("slice end out of range", input)
            ELSE IF NatOf(end.v) < w THEN DPanic("slice start after end", input)
            ELSE LET s == SubSeq(input, w + 1, NatOf(end.v))
                 IN IF ~from_utf8(s) THEN DErr("Eof", input)
                    ELSE DOk(s, DropN(input, NatOf(end.v)))

\* deserialize_bool, deserialize_i8, .., deserialize_option, ..: unimplemented!()
deserialize_unimplemented(input) == DPanic("not implemented", input)

\* the decoder of a field that is no sequence and no record
\* deserialize_bytes: visitor.visit_bytes(self.input), self.input as it was
deserialize_bytes(input) == DOk(input, input)

DeLeaf(ty, input, oc) ==
    CASE ty.k = "u8" -> deserialize_u8(input)
      [] ty.k \in {"u16", "u32", "u64"} -> deserialize_un(SizeOf(ty.k), input)
      [] ty.k = "str" -> deserialize_str(input)
      [] ty.k = "strlv" -> read_tlv_string(ty.w, input, oc)
      [] ty.k = "bytes" -> deserialize_bytes(input)

(***************************************************************************)
(* Primitive encoders (impl ser::Serializer for &mut Serializer).          *)
(***************************************************************************)
serialize_u8(out, v) == Append(out, v)

\* serialize_u16 / serialize_u32 / serialize_u64, n = 2, 4, 8
serialize_un(out, v, n) == out \o NumSer_serialize(v, n)

\* the text without a terminator
serialize_str_unterminated(out, s) == out \o s

serialize_str(out, s) == Append(out \o s, 0)

\* a serialize_bytes that writes the slice
serialize_bytes_written(out, v) == out \o v

serialize_bytes(out, v) == out

\* <[u8] as Serialize>: serialize_seq, one serialize_element (serialize_u8)
\* per byte in index order, end
SerializeByteSeq(out, bytes) ==
    out \o [i \in 1..Len(bytes) |-> serialize_u8(<<>>, bytes[i])[1]]

\* `n as u8`, `n as u16`, `n as u32`, `n as u64` of a usize below 2^24: the
\* low w bytes of n
AsUnsigned(n, w) ==
    IF w = 1 THEN n % 256 ELSE Numeral(n, w)

\* a prefix put in front of everything written so far
SerializePrefix_front(out, n, w) ==
    IF w = 1 THEN <<AsUnsigned(n, w)>> \o out
    ELSE NumSer_serialize(AsUnsigned(n, w), w) \o out

\* the W-byte prefix of str_lvN::serialize and vec_lvN::serialize
SerializePrefix(out, n, w) ==
    IF w = 1 THEN serialize_u8(out, AsUnsigned(n, w))
    ELSE serialize_un(out, AsUnsigned(n, w), w)

\* str_lv8::serialize .. str_lv64::serialize
str_lv_serialize(out, s, w) == SerializeByteSeq(SerializePrefix(out, Len(s), w), s)

\* the encoder of a field that is no sequence and no record
SerLeaf(ty, out, v) ==
    CASE ty.k = "u8" -> serialize_u8(out, v)
      [] ty.k \in {"u16", "u32", "u64"} -> serialize_un(out, v, SizeOf(ty.k))
      [] ty.k = "str" -> serialize_str(out, v)
      [] ty.k = "strlv" -> str_lv_serialize(out, v, ty.w)
      [] ty.k = "bytes" -> serialize_bytes(out, v)

(***************************************************************************)
(* State.                                                                  *)
(***************************************************************************)
VARIABLES
    schema,     \* the record type T of to_bytes::<_, T> and from_bytes::<_, T>
    src,        \* "value": the buffer decoded is to_bytes' output; "raw": it is `raw`
    value,      \* the value handed to to_bytes
    raw,        \* a buffer handed to from_bytes as it is
    tail,       \* the bytes that follow the buffer in the second from_bytes call
    oc,         \* the build checks arithmetic overflow (debug) or wraps (release)
    output,     \* Serializer.output
    estack,     \* the serialize calls in progress, innermost last
    eresult,    \* to_bytes: "idle", "run", "ok"
    input,      \* Deserializer.input of each from_bytes call
    stack,      \* each call's SeqAccess objects in progress, innermost last
    result,     \* each call's from_bytes result: [st, v, e]
    raised,     \* each call's first Err returned by a field decoder
    last        \* each call's latest deserialize_* call: [k, w, pre], the kind
                \* and prefix width asked for and the cursor it started from

vars == <<schema, src, value, raw, tail, oc, output, estack, eresult,
          input, stack, result, raised, last>>
scenario == <<schema, src, value, raw, tail, oc>>
encoder == <<output, estack, eresult>>
decoder == <<input, stack, result, raised, last>>

Calls == {1, 2}

Top(s) == s[Len(s)]
Pop(s) == SubSeq(s, 1, Len(s) - 1)

(***************************************************************************)
(* Encoding: the traversal of value.serialize(&mut serializer).            *)
(***************************************************************************)
\* the fields (or elements) a serialize call still has to write
EFrame(k, items) == [k |-> k, todo |-> items]
\* the fields taken last first
Fields_reversed(ty, v) ==
    [i \in 1..Len(ty.sub) |->
        [ty |-> ty.sub[Len(ty.sub) + 1 - i], v |-> v[Len(ty.sub) + 1 - i]]]

Fields(ty, v) == [i \in 1..Len(ty.sub) |-> [ty |-> ty.sub[i], v |-> v[i]]]
Elements(ty, v) == [i \in 1..Len(v) |-> [ty |-> ty.sub[1], v |-> v[i]]]

RECURSIVE EncodedLen(_, _), EncodedLenFrom(_, _)
\* the number of bytes that the encoding of a value v of type ty takes
EncodedLen(ty, v) ==
    CASE ty.k \in {"u8", "u16", "u32", "u64"} -> SizeOf(ty.k)
      [] ty.k = "str" -> Len(v) + 1
      [] ty.k = "strlv" -> ty.w + Len(v)
      [] ty.k = "struct" -> EncodedLenFrom(Fields(ty, v), 1)
      [] ty.k \in {"vec", "vecb"} ->
            ty.w + (IF ty.sub[1].k \in {"u8", "u16", "u32", "u64"}
                    THEN Len(v) * SizeOf(ty.sub[1].k)
                    ELSE EncodedLenFrom(Elements(ty, v), 1))
\* the bytes that the items from the i-th on take
EncodedLenFrom(items, i) ==
    IF i > Len(items) THEN 0
    ELSE EncodedLen(items[i].ty, items[i].v) + EncodedLenFrom(items, i + 1)

\* vec_lv8b::serialize .. vec_lv64b::serialize: the prefix is the byte length
\* of the encoded elements, then the Vec as a seq
vec_lvb_serialize(out, stk, ty, v) ==
    [output |-> SerializePrefix(out, EncodedLen(ty, v) - ty.w, ty.w),
     estack |-> Append(stk, EFrame("seq", Elements(ty, v))),
     st |-> "run"]

\* a nested record announced by a marker byte
Serialize_framed(out, stk, ty, v) ==
    CASE IsLeaf(ty) ->
            [output |-> SerLeaf(ty, out, v), estack |-> stk, st |-> "run"]
      [] ty.k = "struct" ->
            [output |-> IF stk = <<>> THEN out ELSE Append(out, Len(ty.sub)),
             estack |-> Append(stk, EFrame("struct", Fields(ty, v))),
             st |-> "run"]
      [] ty.k = "vec" ->
            [output |-> SerializePrefix(out, Len(v), ty.w),
             estack |-> Append(stk, EFrame("seq", Elements(ty, v))),
             st |-> "run"]
      [] ty.k = "vecb" -> vec_lvb_serialize(out, stk, ty, v)
      [] ty.k \in Unsupported ->
            \* serialize_bool, serialize_i8, .., serialize_none, ..: unimplemented!()
            [output |-> out, estack |-> stk, st |-> "panic"]

\* value.serialize(&mut **self) for a value v of type ty
Serialize(out, stk, ty, v) ==
    CASE IsLeaf(ty) ->
            [output |-> SerLeaf(ty, out, v), estack |-> stk, st |-> "run"]
      [] ty.k = "struct" ->
            \* derived Serialize: serialize_struct, then one serialize_field per field
            [output |-> out,
             estack |-> Append(stk, EFrame("struct", Fields(ty, v))),
             st |-> "run"]
      [] ty.k = "vec" ->
            \* vec_lvN::serialize: the prefix `v.len() as uN`, then the Vec as a seq
            [output |-> SerializePrefix(out, Len(v), ty.w),
             estack |-> Append(stk, EFrame("seq", Elements(ty, v))),
             st |-> "run"]
      [] ty.k = "vecb" -> vec_lvb_serialize(out, stk, ty, v)
      [] ty.k \in Unsupported ->
            \* serialize_bool, serialize_i8, .., serialize_none, ..: unimplemented!()
            [output |-> out, estack |-> stk, st |-> "panic"]

\* the item written, the frame on top advanced past it
Advance(stk) == [stk EXCEPT ![Len(stk)].todo = Tail(@)]

to_bytes ==
    /\ src \in {"value", "both"}
    /\ eresult = "idle"
    /\ LET s == Serialize(<<>>, <<>>, schema, value)
       IN /\ output' = s.output
          /\ estack' = s.estack
          /\ eresult' = s.st
    /\ UNCHANGED <<scenario, decoder>>

\* SerializeStruct::serialize_field
serialize_field ==
    /\ eresult = "run"
    /\ estack # <<>>
    /\ Top(estack).k = "struct"
    /\ Top(estack).todo # <<>>
    /\ LET item == Head(Top(estack).todo)
           s == Serialize(output, Advance(estack), item.ty, item.v)
       IN /\ output' = s.output
          /\ estack' = s.estack
          /\ eresult' = s.st
    /\ UNCHANGED <<scenario, decoder>>

\* SerializeSeq::serialize_element
serialize_element ==
    /\ eresult = "run"
    /\ estack # <<>>
    /\ Top(estack).k = "seq"
    /\ Top(estack).todo # <<>>
    /\ LET item == Head(Top(estack).todo)
           s == Serialize(output, Advance(estack), item.ty, item.v)
       IN /\ output' = s.output
          /\ estack' = s.estack
          /\ eresult' = s.st
    /\ UNCHANGED <<scenario, decoder>>

\* SerializeStruct::end / SerializeSeq::end; the outermost one ends to_bytes
serialize_end ==
    /\ eresult = "run"
    /\ estack # <<>>
    /\ Top(estack).todo = <<>>
    /\ estack' = Pop(estack)
    /\ eresult' = IF Len(estack) = 1 THEN "ok" ELSE eresult
    /\ UNCHANGED <<scenario, output, decoder>>

(***************************************************************************)
(* Decoding: the traversal of T::deserialize(&mut deserializer).  A frame  *)
(* is a SeqAccess object: TlvStruct ("struct"), PackedArray ("vec", cnt is *)
(* its count) or PackedArrayByteSized ("vecb", cnt is its bytes, before is *)
(* the cursor length when the element in progress was started), with the   *)
(* values its visitor has collected so far.                                *)
(***************************************************************************)
DFrame(k, ty, cnt) == [k |-> k, ty |-> ty, vals |-> <<>>, cnt |-> cnt, before |-> 0]

RIdle == [st |-> "idle", v |-> <<>>, e |-> "none"]
RRun == [st |-> "run", v |-> <<>>, e |-> "none"]
\* an Err on its way up through the visitors' `?`
RUnwind(e) == [st |-> "unwind", v |-> <<>>, e |-> e]
ROk(v) == [st |-> "ok", v |-> v, e |-> "none"]
RErr(e) == [st |-> "err", v |-> <<>>, e |-> e]
RPanic(why) == [st |-> "panic", v |-> <<>>, e |-> why]

\* the state of one from_bytes call
Call(c) == [input |-> input[c], stack |-> stack[c], result |-> result[c],
            raised |-> raised[c], last |-> last[c]]
\* one cursor, one frame stack and one result that all calls use
SetCall_shared(c, cs) ==
    /\ input' = [d \in Calls |-> cs.input]
    /\ stack' = [d \in Calls |-> cs.stack]
    /\ result' = [d \in Calls |-> cs.result]
    /\ raised' = [d \in Calls |-> cs.raised]
    /\ last' = [d \in Calls |-> cs.last]

SetCall(c, cs) ==
    /\ input' = [input EXCEPT ![c] = cs.input]
    /\ stack' = [stack EXCEPT ![c] = cs.stack]
    /\ result' = [result EXCEPT ![c] = cs.result]
    /\ raised' = [raised EXCEPT ![c] = cs.raised]
    /\ last' = [last EXCEPT ![c] = cs.last]

\* from_bytes: `let t = T::deserialize(&mut deserializer)?; Ok(t)`, with the
\* cursor `rest` left when deserialize returned r
\* an entry point that refuses input it has not used up
from_bytes_strict(r, rest) ==
    IF r.st # "ok" THEN RErr(r.e)
    ELSE IF rest = <<>> THEN ROk(r.v) ELSE RErr("TrailingBytes")

from_bytes_return(r, rest) == IF r.st = "ok" THEN ROk(r.v) ELSE RErr(r.e)

\* The element decoder that the frame on top invoked has returned r: the rest
\* of next_element_seed, then the visitor's `?` or its push.
Returned(cs, r) ==
    LET top == Top(cs.stack)
        n == Len(cs.stack)
        \* PackedArrayByteSized: self.bytes -= before - after
        left == USub(top.cnt, top.before - Len(r.rest))
        stk == IF top.k = "vecb" THEN [cs.stack EXCEPT ![n].cnt = left.v] ELSE cs.stack
    IN IF r.st = "panic"
       THEN [cs EXCEPT !.result = RPanic(r.e)]
       ELSE IF top.k = "vecb" /\ left.borrow /\ oc
       THEN [cs EXCEPT !.input = r.rest, !.result = RPanic("subtract overflow")]
       ELSE IF r.st = "err"
       THEN [cs EXCEPT !.input = r.rest, !.stack = stk, !.result = RUnwind(r.e)]
       ELSE [cs EXCEPT !.input = r.rest,
                       !.stack = [stk EXCEPT ![n].vals = Append(@, r.v)]]

\* a field decoder returned r: remember the first Err
Raise(cs, r) ==
    IF r.st = "err" /\ cs.raised = "none" THEN [cs EXCEPT !.raised = r.e] ELSE cs

\* deserialize_tuple_struct for "vec8".."vec64" and "vec8b".."vec64b": read the
\* prefix, advance, and hand a PackedArray / PackedArrayByteSized to the visitor
deserialize_tuple_struct(cs, ty) ==
    IF Len(cs.input) < ty.w
    THEN [cs EXCEPT !.result = RPanic("slice end out of range")]
    ELSE LET len == read_size(ty.w, SubSeq(cs.input, 1, ty.w))
             rest == DropN(cs.input, ty.w)
             count == UAdd(len.v, 1)
         IN IF ~len.ok
            THEN LET r == DErr("ExpectedInteger", cs.input) IN Returned(Raise(cs, r), r)
            ELSE IF ty.k = "vecb"
            THEN [cs EXCEPT !.input = rest,
                            !.stack = Append(@, DFrame("vecb", ty, len.v))]
            ELSE IF count.carry /\ oc
            THEN [cs EXCEPT !.input = rest, !.result = RPanic("add overflow")]
            ELSE [cs EXCEPT !.input = rest,
                            !.stack = Append(@, DFrame("vec", ty, count.v))]

NoCall == [k |-> "none", w |-> 0, pre |-> <<>>]

\* seed.deserialize(&mut *self.de) for an element of type ty, invoked by the
\* frame on top
Deserialize(cs0, ty) ==
    LET cs == [cs0 EXCEPT !.last = [k |-> ty.k, w |-> ty.w, pre |-> cs0.input]]
    IN CASE IsLeaf(ty) ->
               LET r == DeLeaf(ty, cs.input, oc) IN Returned(Raise(cs, r), r)
         [] ty.k = "struct" ->
               \* deserialize_struct -> deserialize_seq -> visit_seq(TlvStruct::new(self))
               [cs EXCEPT !.stack = Append(@, DFrame("struct", ty, UZero))]
         [] ty.k \in {"vec", "vecb"} -> deserialize_tuple_struct(cs, ty)
         [] ty.k \in Unsupported ->
               LET r == deserialize_unimplemented(cs.input) IN Returned(Raise(cs, r), r)

\* visit_seq of the frame on top returns Ok(its values) to whoever asked for it
Finished(cs) ==
    LET r == DOk(Top(cs.stack).vals, cs.input)
        popped == [cs EXCEPT !.stack = Pop(@)]
    IN IF popped.stack = <<>>
       THEN [popped EXCEPT !.result = from_bytes_return(r, cs.input)]
       ELSE Returned(popped, r)

\* the buffer each call decodes
Buffer(c) == (IF src = "value" THEN output ELSE raw) \o (IF c = 2 THEN tail ELSE <<>>)

from_bytes(c) ==
    /\ result[c].st = "idle"
    /\ src = "value" => eresult = "ok"
    /\ SetCall(c, [input |-> Buffer(c),
                   stack |-> <<DFrame("struct", schema, UZero)>>,
                   result |-> RRun,
                   raised |-> "none",
                   last |-> [k |-> "struct", w |-> 0, pre |-> Buffer(c)]])
    /\ UNCHANGED <<scenario, encoder>>

Running(c) == result[c].st = "run" /\ stack[c] # <<>>

\* TlvStruct::next_element_seed: the next field of the record
TlvStruct_next_element_seed(c) ==
    /\ Running(c)
    /\ LET top == Top(stack[c])
       IN /\ top.k = "struct"
          /\ Len(top.vals) < Len(top.ty.sub)
          /\ SetCall(c, Deserialize(Call(c), top.ty.sub[Len(top.vals) + 1]))
    /\ UNCHANGED <<scenario, encoder>>

\* the derived visitor's visit_seq has read every field: Ok(record)
visit_seq_struct(c) ==
    /\ Running(c)
    /\ LET top == Top(stack[c])
       IN /\ top.k = "struct"
          /\ Len(top.vals) = Len(top.ty.sub)
          /\ SetCall(c, Finished(Call(c)))
    /\ UNCHANGED <<scenario, encoder>>

\* PackedArray::next_element_seed, called from TlvVecVisitor::visit_seq
PackedArray_next_element_seed(c) ==
    /\ Running(c)
    /\ LET top == Top(stack[c])
           n == Len(stack[c])
           dec == USub(top.cnt, 1)
           cs == [Call(c) EXCEPT !.stack[n].cnt = dec.v]
       IN /\ top.k = "vec"
          /\ IF dec.borrow /\ oc
             THEN SetCall(c, [cs EXCEPT !.result = RPanic("subtract overflow")])
             ELSE IF dec.v = UZero
             THEN SetCall(c, Finished(cs))
             ELSE /\ Len(top.vals) < MaxElems
                  /\ SetCall(c, Deserialize(cs, top.ty.sub[1]))
    /\ UNCHANGED <<scenario, encoder>>

\* PackedArrayByteSized::next_element_seed, called from TlvVecVisitor::visit_seq
PackedArrayByteSized_next_element_seed(c) ==
    /\ Running(c)
    /\ LET top == Top(stack[c])
           n == Len(stack[c])
           cs == [Call(c) EXCEPT !.stack[n].before = Len(input[c])]
       IN /\ top.k = "vecb"
          /\ IF top.cnt = UZero
             THEN SetCall(c, Finished(Call(c)))
             ELSE /\ Len(top.vals) < MaxElems
                  /\ SetCall(c, Deserialize(cs, top.ty.sub[1]))
    /\ UNCHANGED <<scenario, encoder>>

\* an Err leaves the visitor of the frame on top through `?`: to the handler
\* of the frame below, or out of from_bytes
propagate(c) ==
    /\ result[c].st = "unwind"
    /\ LET cs == Call(c)
           r == DErr(cs.result.e, cs.input)
           popped == [cs EXCEPT !.stack = Pop(@)]
       IN IF popped.stack = <<>>
          THEN SetCall(c, [popped EXCEPT !.result = from_bytes_return(r, cs.input)])
          ELSE SetCall(c, Returned(popped, r))
    /\ UNCHANGED <<scenario, encoder>>

\* A record of fields that are no sequences and no records, written field by
\* field: the serialize_field calls of its derived Serialize, from field i on
RECURSIVE EncodeFlat(_, _, _, _)
EncodeFlat(ty, v, i, out) ==
    IF i > Len(ty.sub) THEN out
    ELSE EncodeFlat(ty, v, i + 1, SerLeaf(ty.sub[i], out, v[i]))

\* The same record read field by field: the next_element_seed calls of its
\* derived visit_seq from field i on, vals being the fields read so far
RECURSIVE DecodeFlat(_, _, _, _)
DecodeFlat(ty, in, i, vals) ==
    IF i > Len(ty.sub) THEN DOk(vals, in)
    ELSE LET r == DeLeaf(ty.sub[i], in, oc)
         IN IF r.st = "ok" THEN DecodeFlat(ty, r.rest, i + 1, Append(vals, r.v)) ELSE r

(***************************************************************************)
(* Scenarios: the record types, the values encoded and the raw buffers.    *)
(***************************************************************************)
Widths == {1, 2, 4, 8}

\* a record with no fields
Unit == Rec(<<>>)
\* the Dirent of the tests, shortened: a record with a length-prefixed name
Dirent == Rec(<<U8, StrLv(2)>>)

\* the Version of test_struct_lv: size, typ, tag, msize, version
Version == Rec(<<U32, U8, U16, U32, Str>>)

\* records that hold the same data twice: as a count-prefixed and as a
\* byte-budget sequence
PairTypes ==
    {Rec(<<VecLv(1, U16), VecLvB(1, U16)>>), Rec(<<VecLv(1, U8), VecLvB(2, U8)>>)}

\* records with a field of a kind that has no encoding
UnsupportedTypes == {Rec(<<U8, Bool>>), Rec(<<U8, Opt>>)}

\* a record with a byte slice between two bytes
BytesTypes == {Rec(<<U8, Bytes, U8>>)}

\* record types that are encoded and decoded back
EncTypes ==
    {Rec(<<U8, U16>>), Rec(<<U32, U64>>), Rec(<<Str, U8>>),
     Rec(<<U8, Rec(<<U16, Str>>), U8>>),
     Rec(<<VecLv(1, Dirent)>>), Rec(<<VecLv(8, Unit)>>)}
    \cup {Rec(<<StrLv(w), U8>>) : w \in Widths}
    \cup {Rec(<<VecLv(w, U8)>>) : w \in Widths}
    \cup PairTypes
    \cup {Version}
    \cup UnsupportedTypes
    \cup BytesTypes

\* record types that decode raw buffers
RawTypes ==
    {Rec(<<U8, U16>>), Rec(<<U32>>), Rec(<<U64>>), Rec(<<Str, U8>>),
     Rec(<<U8, Rec(<<StrLv(1), Str>>)>>),
     Rec(<<VecLv(1, Rec(<<StrLv(1)>>)), U8>>),
     Rec(<<VecLvB(1, Rec(<<U16, StrLv(1)>>))>>),
     Rec(<<VecLvB(1, Rec(<<U8, Str>>))>>)}
    \cup {Rec(<<StrLv(w), U8>>) : w \in Widths}
    \cup {Rec(<<VecLv(w, U8)>>) : w \in Widths}
    \cup {Rec(<<VecLv(w, Unit)>>) : w \in {1, 8}}
    \cup {Rec(<<VecLvB(w, U8)>>) : w \in {1, 2}}
    \cup {Rec(<<VecLvB(1, Unit)>>)}
    \cup UnsupportedTypes
    \cup BytesTypes

\* the bytes of raw buffers: NUL, small lengths and counts, an ASCII letter is
\* not needed; 200 is a lead byte with no continuation (not UTF-8)
RawBytes == {0, 1, 2, 200}

SeqsUpTo(S, n) == UNION {[1..m -> S] : m \in 0..n}

\* Rust strings (valid UTF-8, a NUL is a legal character): short ones, and for
\* a one-byte prefix the lengths 2^8 - 1 and 2^8
Strings(w, n) ==
    SeqsUpTo({0, 97}, n) \cup (IF w = 1 THEN {Rep(97, 255), Rep(97, 256)} ELSE {})

\* vectors of elements from S: short ones, and 2^8 elements for bytes under a
\* prefix of one or two bytes
Vectors(ty, S, n) ==
    SeqsUpTo(S, n)
    \cup (IF ty.sub[1] = U8 /\ ty.w <= 2 THEN {Rep(1, 256)} ELSE {})

RECURSIVE ValuesOf(_, _), RecordsOf(_, _, _)
\* the values of type ty; n bounds the length of its strings and vectors
ValuesOf(ty, n) ==
    CASE ty.k = "u8" -> {1, 255}
      [] ty.k = "u16" -> {<<1, 2>>, <<255, 255>>}
      [] ty.k = "u32" -> {<<1, 2, 3, 4>>}
      [] ty.k = "u64" -> {<<128, 0, 0, 0, 0, 10, 91, 254>>}
      [] ty.k = "bool" -> {TRUE}
      [] ty.k = "option" -> {<<>>}
      [] ty.k = "bytes" -> {<<>>, <<1, 2>>}
      [] ty.k = "str" -> Strings(0, n)
      [] ty.k = "strlv" -> Strings(ty.w, n)
      [] ty.k \in {"vec", "vecb"} -> Vectors(ty, ValuesOf(ty.sub[1], n - 1), n)
      [] ty.k = "struct" -> RecordsOf(ty.sub, 1, n)
\* the values of the fields from the i-th on, as tuples
RecordsOf(fields, i, n) ==
    IF i > Len(fields) THEN {<<>>}
    ELSE {<<h>> \o t : h \in ValuesOf(fields[i], n), t \in RecordsOf(fields, i + 1, n)}

\* a 64-bit prefix holding 2^64 - 1 and 2^64 - 2
BigPrefixes == {UMax, <<254>> \o Rep(255, USizeBytes - 1)}

\* A one-byte budget followed by an element that reads past the budget and
\* then fails: u16, then a string whose text is not UTF-8
OverrunBufs == {<<1, 0, 0, 1, 200>>, <<1, 0, 200, 0>>}

\* the values handed to to_bytes for a record type
Values(ty) ==
    IF ty \in PairTypes
    THEN {<<d, d>> : d \in ValuesOf(ty.sub[1], MaxLen)}
    ELSE ValuesOf(ty, MaxLen)

RawBufs(ty) ==
    SeqsUpTo(RawBytes, MaxBuf)
    \cup (IF ty.sub[1].w = USizeBytes THEN BigPrefixes ELSE {})
    \cup (IF ty.sub[1].k = "vecb" /\ ty.sub[1].w = 1 THEN OverrunBufs ELSE {})

\* what follows the buffer in the second call: one byte more than the first
\* call is given
Tails == {<<1>>}

\* a value is encoded and the output is decoded
ValueScenario ==
    /\ src = "value"
    /\ schema \in EncTypes
    /\ value \in Values(schema)
    /\ raw = <<>>

\* a raw buffer is decoded
RawScenario ==
    /\ src = "raw"
    /\ schema \in RawTypes
    /\ raw \in RawBufs(schema)
    /\ value = <<>>

\* a value is encoded while a raw buffer, not the output, is decoded
BothTypes == {Rec(<<Str, U8>>), Rec(<<StrLv(1), U8>>)}
BothScenario ==
    /\ src = "both"
    /\ schema \in BothTypes
    /\ value \in ValuesOf(schema, 1)
    /\ raw \in SeqsUpTo({0, 1, 200}, MaxBuf)

\* nothing has been called yet
Idle ==
    /\ output = <<>>
    /\ estack = <<>>
    /\ eresult = "idle"
    /\ input = [c \in Calls |-> <<>>]
    /\ stack = [c \in Calls |-> <<>>]
    /\ result = [c \in Calls |-> RIdle]
    /\ raised = [c \in Calls |-> "none"]
    /\ last = [c \in Calls |-> NoCall]

Init ==
    /\ oc \in BOOLEAN
    /\ tail \in Tails
    /\ ValueScenario \/ RawScenario
    /\ Idle

\* the records whose output is decoded twice
RepeatTypes == PairTypes \cup {Version, Rec(<<U8, Rec(<<U16, Str>>), U8>>)}

\* the second from_bytes call is given the buffer of the first, and to_bytes
\* may run on a value of its own at the same time
InitRepeat ==
    /\ oc \in BOOLEAN
    /\ tail = <<>>
    /\ (ValueScenario /\ schema \in RepeatTypes) \/ BothScenario
    /\ Idle

Next ==
    \/ to_bytes
    \/ serialize_field
    \/ serialize_element
    \/ serialize_end
    \/ \E c \in Calls : from_bytes(c)
    \/ \E c \in Calls : TlvStruct_next_element_seed(c)
    \/ \E c \in Calls : visit_seq_struct(c)
    \/ \E c \in Calls : PackedArray_next_element_seed(c)
    \/ \E c \in Calls : PackedArrayByteSized_next_element_seed(c)
    \/ \E c \in Calls : propagate(c)

Spec == Init /\ [][Next]_vars

SpecRepeat == InitRepeat /\ [][Next]_vars

(***************************************************************************)
(* Properties                                                              *)
(***************************************************************************)

Done(c) == result[c].st \in {"ok", "err", "panic"}

\* The decoder call that call c made last has come back with an Err
Failed(c) == result[c].st \in {"unwind", "err"}

\* C1: decoding what to_bytes produced for a value gives that value back and
\* uses up the whole buffer, for every value the encoder accepts: strings
\* that contain a 0x00 and sequences of every length included.
C1_RoundTrip ==
    (src = "value" /\ Done(1)) =>
        /\ result[1].st = "ok"
        /\ result[1].v = value
        /\ input[1] = <<>>

LengthFits(n, w) == w >= 4 \/ n < (IF w = 1 THEN 256 ELSE 65536)

\* C3: an encode of a length-prefixed string that succeeds has written a
\* length field equal to the byte length of the string (a string of 2^W bytes
\* or more makes the encode fail), and it decodes back to the same string.
C3_PrefixBoundary ==
    (src = "value" /\ schema.sub[1].k = "strlv" /\ eresult = "ok") =>
        LET w == schema.sub[1].w
            s == value[1]
        IN /\ LengthFits(Len(s), w)
           /\ IF w = 1 THEN output[1] = Len(s)
              ELSE NumDe_deserialize(SubSeq(output, 1, w)) = Numeral(Len(s), w)
           /\ Done(1) => (result[1].st = "ok" /\ result[1].v[1] = s)

Primitives == {"u8", "u16", "u32", "u64"}

\* C4: a u8/u16/u32/u64 decode that finds fewer than 1/2/4/8 bytes in the
\* cursor returns Error::Eof; it does not abort.
C4_PrimitiveUnderrun ==
    \A c \in Calls :
        (last[c].k \in Primitives /\ Len(last[c].pre) < SizeOf(last[c].k))
            => (Failed(c) /\ raised[c] = "Eof")

\* the length prefix that call c's latest deserialize_* call found
LastPrefix(c) == read_size(last[c].w, SubSeq(last[c].pre, 1, last[c].w))

\* call c's latest deserialize_* call is for a length-prefixed string whose
\* prefix and payload are both within the input
PayloadIn(c) ==
    /\ last[c].k = "strlv"
    /\ Len(last[c].pre) >= last[c].w
    /\ ULeq(LastPrefix(c).v, Len(last[c].pre) - last[c].w)

Payload(c) ==
    SubSeq(last[c].pre, last[c].w + 1, last[c].w + NatOf(LastPrefix(c).v))

\* C5: a length-prefixed string decode whose prefix is cut short, or whose
\* prefix asks for more bytes than remain after it, returns an error value.
C5_PrefixedStringUnderrun ==
    \A c \in Calls :
        (last[c].k = "strlv" /\ ~PayloadIn(c))
            => (Failed(c) /\ raised[c] # "none")

\* C6: a null-terminated string decode on a cursor without a 0x00 byte
\* returns an error value.
C6_MissingTerminator ==
    \A c \in Calls :
        (last[c].k = "str" /\ \A i \in 1..Len(last[c].pre) : last[c].pre[i] # 0)
            => (Failed(c) /\ raised[c] # "none")

\* C7: a length-prefixed string whose payload is not UTF-8 fails with the
\* invalid-text kind, which is not the end-of-input kind Error::Eof, and the
\* cursor stays where the field began.
C7_InvalidTextKind ==
    \A c \in Calls :
        (PayloadIn(c) /\ ~from_utf8(Payload(c)))
            => /\ raised[c] \notin {"none", "Eof"}
               /\ input[c] = last[c].pre

\* C8: a payload that is not UTF-8 is reported by a length-prefixed string with
\* the kind that a null-terminated string reports for the same payload, and
\* that kind is not the one for running out of input, Error::Eof.
C8_UniformErrorKind ==
    \A c \in Calls :
        (/\ PayloadIn(c)
         /\ ~from_utf8(Payload(c))
         /\ \A i \in 1..Len(Payload(c)) : Payload(c)[i] # 0)
            => /\ raised[c] = deserialize_str(Append(Payload(c), 0)).e
               /\ deserialize_str(Append(Payload(c), 0)).e # "Eof"

\* C9: when a field decoder has returned an error, from_bytes returns that
\* error, with no value.
C9_FailureAborts ==
    \A c \in Calls :
        (raised[c] # "none" /\ Done(c)) => result[c] = RErr(raised[c])

\* bytes that one element of the sequence takes: u8 or a record without fields
ElemSize(ty) == IF ty.k = "u8" THEN 1 ELSE 0

\* C10: a record whose only field is a count-prefixed sequence of elements
\* of fixed size decodes, when the buffer holds the count N and N elements,
\* into exactly N elements, and consumes the prefix and the N elements.
C10_CountDecode ==
    \A c \in Calls :
        LET ty == schema.sub[1]
            buf == Buffer(c)
            n == read_size(ty.w, SubSeq(buf, 1, ty.w)).v
        IN (/\ Len(schema.sub) = 1
            /\ ty.k = "vec"
            /\ ty.sub[1] \in {U8, Unit}
            /\ Len(buf) >= ty.w
            /\ ElemSize(ty.sub[1]) = 0 \/ ULeq(n, Len(buf) - ty.w)
            /\ Done(c))
           => /\ result[c].st = "ok"
              /\ ToUsize(Len(result[c].v[1])) = n
              /\ Len(input[c]) = Len(buf) - ty.w - ElemSize(ty.sub[1]) * Len(result[c].v[1])

\* call c decodes a record whose first field is a byte-budget sequence, and
\* the PackedArrayByteSized of that field is live
BudgetFrame(c) ==
    /\ schema.sub[1].k = "vecb"
    /\ Len(stack[c]) >= 2
    /\ stack[c][2].k = "vecb"

\* the budget that the prefix of the first field holds
Budget(c) == read_size(schema.sub[1].w, SubSeq(Buffer(c), 1, schema.sub[1].w)).v

\* C11: the remaining budget of a byte-budget sequence never leaves the range
\* from 0 to the budget read, and an element that has consumed more bytes than
\* the budget had left makes the decode fail with an error value.
C11_BudgetMismatch ==
    \A c \in Calls :
        BudgetFrame(c) =>
            LET f == stack[c][2]
            IN /\ ULeq(f.cnt, NatOf(Budget(c)))
               /\ (/\ Len(stack[c]) = 2
                   /\ result[c].st # "run"
                   /\ f.before - Len(input[c]) > NatOf(f.cnt))
                  => Failed(c)

\* the bytes of the encoded field i of the record, without the w-byte prefix
AfterPrefix(i) ==
    LET from == IF i = 1 THEN 0 ELSE EncodedLen(schema.sub[1], value[1])
        len == EncodedLen(schema.sub[i], value[i])
    IN SubSeq(output, from + schema.sub[i].w + 1, from + len)

\* C12: when a record holds the same data of fixed-size elements as a
\* count-prefixed and as a byte-budget sequence, the two encodings are the
\* same after their prefixes, and each field decodes to that data.
C12_CountBudgetEquivalence ==
    (src = "value" /\ schema \in PairTypes /\ value[1] = value[2]) =>
        /\ eresult = "ok" => AfterPrefix(1) = AfterPrefix(2)
        /\ \A c \in Calls :
              /\ stack[c] # <<>> =>
                    \A i \in 1..Len(stack[c][1].vals) : stack[c][1].vals[i] = value[i]
              /\ Done(c) => (result[c].st = "ok" /\ result[c].v = value)

NulAt(s) == {i \in 1..Len(s) : s[i] = 0}
FirstNul(s) == CHOOSE i \in NulAt(s) : \A j \in NulAt(s) : i <= j
BeforeNul(s) == SubSeq(s, 1, FirstNul(s) - 1)

\* the encoder is about to write a field or element of kind k
Writing(k) ==
    /\ eresult = "run"
    /\ estack # <<>>
    /\ Top(estack).todo # <<>>
    /\ Head(Top(estack).todo).ty.k = k

\* the step is a deserialize_* call of call c for a field of kind k
Reading(c, k) == last[c]' # last[c] /\ last[c]'.k = k

\* the value that the step has handed to the visitor of the frame on top
Visited(c) == LET n == Len(stack[c]) IN stack[c]'[n].vals[Len(stack[c][n].vals) + 1]

VersionBytes ==
    ToLeBytes(value[1], 4) \o <<value[2]>> \o ToLeBytes(value[3], 2)
        \o ToLeBytes(value[4], 4) \o value[5] \o <<0>>

HoldsLe(p, n) == FitsNat(AsUsize(p)) /\ NatOf(AsUsize(p)) = n

\* C14: writing a length-prefixed string of width w appends w bytes that hold
\* the string's byte length in little-endian order, then the string's bytes
\* and nothing more. Reading one whose prefix and payload are within the
\* cursor, the payload being UTF-8, yields the payload and moves the cursor
\* past the w + length bytes.
C14_PrefixedStringLayout ==
    [][/\ Writing("strlv") =>
              LET item == Head(Top(estack).todo)
                  w == item.ty.w
                  from == Len(output)
              IN /\ Len(output') = from + w + Len(item.v)
                 /\ SubSeq(output', 1, from) = output
                 /\ HoldsLe(SubSeq(output', from + 1, from + w), Len(item.v))
                 /\ SubSeq(output', from + w + 1, Len(output')) = item.v
       /\ \A c \in Calls :
              (Reading(c, "strlv") /\ PayloadIn(c)' /\ from_utf8(Payload(c)'))
                  => /\ input[c]' = DropN(last[c]'.pre, last[c]'.w + Len(Payload(c)'))
                     /\ Len(stack[c]') = Len(stack[c])
                     /\ Visited(c) = Payload(c)'
      ]_vars

\* C15: writing a count-prefixed sequence of width w appends w bytes that
\* hold the number of elements in little-endian order and goes on to write the
\* elements in index order; a vector of bytes is encoded as the count
\* followed by its bytes.
C15_CountEncode ==
    [][/\ Writing("vec") =>
              LET item == Head(Top(estack).todo)
                  w == item.ty.w
                  from == Len(output)
              IN /\ Len(output') = from + w
                 /\ SubSeq(output', 1, from) = output
                 /\ HoldsLe(SubSeq(output', from + 1, from + w), Len(item.v))
                 /\ Top(estack').todo =
                        [i \in 1..Len(item.v) |-> [ty |-> item.ty.sub[1], v |-> item.v[i]]]
       /\ (/\ src = "value"
           /\ schema \in {Rec(<<VecLv(w, U8)>>) : w \in Widths}
           /\ eresult' = "ok")
              => SubSeq(output', schema.sub[1].w + 1, Len(output')) = value[1]
      ]_vars

\* records with a nested record among their fields
NestedTypes == {Rec(<<U8, Rec(<<U16, Str>>), U8>>), Rec(<<U8, Rec(<<StrLv(1), Str>>)>>)}

RECURSIVE ConcatFrom(_, _)
ConcatFrom(ss, i) == IF i > Len(ss) THEN <<>> ELSE ss[i] \o ConcatFrom(ss, i + 1)

\* the record type with the fields of its nested records inline, and a value
\* of it
InlineType(ty) ==
    Rec(ConcatFrom([i \in 1..Len(ty.sub) |->
            IF ty.sub[i].k = "struct" THEN ty.sub[i].sub ELSE <<ty.sub[i]>>], 1))
InlineValue(ty, v) ==
    ConcatFrom([i \in 1..Len(ty.sub) |->
            IF ty.sub[i].k = "struct" THEN v[i] ELSE <<v[i]>>], 1)

\* C16: a record with a nested record is encoded to the bytes that the
\* record with the nested fields inline is encoded to, and decoding a buffer
\* as either record ends the same way: with the same fields, the same error or
\* the same abort, at the same place of the cursor.
C16_NestedNoFraming ==
    schema \in NestedTypes =>
        /\ (src = "value" /\ eresult = "ok") =>
               output = EncodeFlat(InlineType(schema), InlineValue(schema, value), 1, <<>>)
        /\ \A c \in Calls :
               Done(c) =>
                   LET f == DecodeFlat(InlineType(schema), Buffer(c), 1, <<>>)
                   IN /\ result[c].st = f.st
                      /\ result[c].e = f.e
                      /\ input[c] = f.rest
                      /\ f.st = "ok" => InlineValue(schema, result[c].v) = f.v

C16_Witness ==
    /\ src = "value" /\ schema \in NestedTypes
    /\ Len(value[2][2]) = 2
    /\ Done(1) /\ result[1].st = "ok" /\ input[1] = <<>>

\* C17: a to_bytes call on a record with a field of a kind without encoding
\* ends with an error value, and a deserialize_* call for such a kind returns
\* an error value.
C17_UnsupportedKinds ==
    /\ (src = "value" /\ schema \in UnsupportedTypes /\ eresult \notin {"idle", "run"})
           => eresult = "err"
    /\ \A c \in Calls :
           last[c].k \in Unsupported => (Failed(c) /\ raised[c] # "none")

\* C18: a step of one from_bytes call changes nothing of the other call and
\* nothing of to_bytes, and a step of to_bytes changes nothing of the calls
\* of from_bytes. Two from_bytes calls on the same buffer end with the same
\* result and the same cursor however their steps interleave; and while
\* to_bytes runs on a value of its own, it and each from_bytes call end as
\* they do when the fields are written or read alone, one after the other.
C18_CallIndependence ==
    [][/\ \A c \in Calls :
              Call(c)' # Call(c) =>
                  /\ \A d \in Calls \ {c} : Call(d)' = Call(d)
                  /\ encoder' = encoder
       /\ encoder' # encoder => decoder' = decoder
       /\ (Done(1) /\ Done(2))' => (result[1] = result[2] /\ input[1] = input[2])'
       /\ src = "both" =>
              /\ eresult' = "ok" => output' = EncodeFlat(schema, value, 1, <<>>)
              /\ \A c \in Calls :
                     Done(c)' =>
                         LET f == DecodeFlat(schema, raw, 1, <<>>)
                         IN /\ result[c]'.st = f.st
                            /\ result[c]'.e = f.e
                            /\ result[c]'.v = f.v
                            /\ input[c]' = f.rest
      ]_vars

\* to_bytes and one from_bytes call are under way and the other call is over
C18_Witness ==
    /\ src = "both"
    /\ eresult = "run" /\ output # <<>>
    /\ result[1].st = "run" /\ Len(stack[1][1].vals) = 1
    /\ Done(2)

SuffixOf(s, t) == Len(s) <= Len(t) /\ s = SubSeq(t, Len(t) - Len(s) + 1, Len(t))

\* the cursor a step of call c starts from
Cursor(c) == IF result[c].st = "idle" THEN Buffer(c) ELSE input[c]

\* C19: in every step of every from_bytes call the cursor the step starts
\* from is a suffix of the buffer given to the call and the cursor it leaves
\* is a suffix of the one it started from, so that its length never grows;
\* every deserialize_* call reads from the cursor of that moment, and a
\* primitive that was decoded has moved the cursor past all of its bytes,
\* so that no byte already consumed is under the cursor again.
C19_CursorInvariant ==
    [][\A c \in Calls :
           /\ result[c]'.st # "idle" =>
                  /\ SuffixOf(Cursor(c), Buffer(c))
                  /\ SuffixOf(input[c]', Cursor(c))
                  /\ Len(input[c]') <= Len(Cursor(c))
           /\ last[c]' # last[c] => last[c]'.pre = Cursor(c)
           /\ \A k \in Primitives :
                  (Reading(c, k) /\ result[c]'.st \in {"run", "ok"}) =>
                      /\ Len(Cursor(c)) >= SizeOf(k)
                      /\ input[c]' = SubSeq(Cursor(c), SizeOf(k) + 1, Len(Cursor(c)))
      ]_vars

\* a call is under way with part of its buffer consumed and part still to
\* be read, after a primitive and a string have been decoded
C19_Witness ==
    /\ src = "raw"
    /\ result[1].st = "run"
    /\ Len(input[1]) > 0 /\ Len(input[1]) < Len(Buffer(1))
    /\ last[1].k = "str"
    /\ Len(last[1].pre) < Len(Buffer(1))
    /\ Len(input[1]) < Len(last[1].pre)

\* C20: every step of to_bytes leaves the bytes that are in the output
\* where they are and only appends after them. A length-prefixed string is
\* appended as the bytes of its prefix and then its bytes; the step that
\* starts a count-prefixed vector appends the bytes of the prefix and
\* nothing else, with every element still to be written, so that the prefix
\* is in the output before the payload and is not touched afterwards.
C20_AppendOnly ==
    [][/\ Len(output') >= Len(output)
       /\ SubSeq(output', 1, Len(output)) = output
       /\ Writing("strlv") =>
              LET item == Head(Top(estack).todo)
              IN /\ Len(output') = Len(output) + item.ty.w + Len(item.v)
                 /\ SubSeq(output', Len(output) + item.ty.w + 1, Len(output')) = item.v
       /\ Writing("vec") =>
              LET item == Head(Top(estack).todo)
              IN /\ Len(output') = Len(output) + item.ty.w
                 /\ Len(Top(estack').todo) = Len(item.v)
      ]_vars

\* a count-prefixed vector of two elements and a vector after it have been
\* written; the first prefix is still the first byte of the output
C20_Witness ==
    /\ src = "value"
    /\ schema \in PairTypes
    /\ Len(value[1]) = 2
    /\ eresult = "ok"
    /\ output[1] = 2
    /\ Len(output) > 4

\* C21: to_bytes has, at every moment, the fields of the top-level record
\* still to write in declaration order with none left out, and a
\* serialize_field call takes the first of them off; from_bytes asks, for a
\* record that has i - 1 fields, for the kind of field i at the cursor of
\* that moment, every step adds at most one value to a record, only a
\* deserialize_* call moves the cursor, and a record is returned with all
\* its fields: each field starts where the one before it stopped.
C21_FieldOrder ==
    [][/\ (eresult = "run" /\ estack # <<>>) =>
              LET k == Len(schema.sub) - Len(estack[1].todo)
              IN /\ k >= 0
                 /\ estack[1].todo =
                        [i \in 1..Len(estack[1].todo) |->
                            [ty |-> schema.sub[k + i], v |-> value[k + i]]]
       /\ (eresult = "run" /\ estack # <<>> /\ Top(estack).k = "struct"
               /\ Top(estack).todo # <<>>) =>
              estack'[Len(estack)].todo = Tail(Top(estack).todo)
       /\ \A c \in Calls :
              /\ (Running(c) /\ Top(stack[c]).k = "struct" /\ last[c]' # last[c]) =>
                     LET top == Top(stack[c])
                         i == Len(top.vals) + 1
                     IN /\ i <= Len(top.ty.sub)
                        /\ last[c]'.k = top.ty.sub[i].k
                        /\ last[c]'.w = top.ty.sub[i].w
                        /\ last[c]'.pre = input[c]
              /\ (result[c].st # "idle" /\ input[c]' # input[c]) => last[c]' # last[c]
              /\ \A j \in 1..Len(stack[c]) :
                     j <= Len(stack[c]') =>
                         /\ Len(stack[c]'[j].vals) >= Len(stack[c][j].vals)
                         /\ Len(stack[c]'[j].vals) <= Len(stack[c][j].vals) + 1
                         /\ stack[c]'[j].k = "struct" =>
                                Len(stack[c]'[j].vals) <= Len(stack[c]'[j].ty.sub)
              /\ result[c]'.st = "ok" => Len(result[c]'.v) = Len(schema.sub)
      ]_vars

\* the first four fields of a Version have been read and its string is next
C21_Witness ==
    /\ src = "value"
    /\ schema = Version
    /\ result[1].st = "run"
    /\ Len(stack[1][1].vals) = 4
    /\ last[1].k = "u32"
    /\ Len(input[1]) = Len(output) - 11

\* the bytes call c has consumed behind the prefix of the first field
Used(c) == Len(Buffer(c)) - schema.sub[1].w - Len(input[c])

\* C22: in a record whose first field is a byte-budget sequence with budget
\* B, between two elements the remaining budget is B less the bytes the
\* elements have consumed, as long as these are no more than B; with a
\* remaining budget of zero the next step ends the sequence and with any
\* other it decodes one more element at the cursor; when the record is that
\* field alone, a successful decode has consumed exactly B bytes behind the
\* prefix, and B = 0 gives the empty vector.
C22_BudgetDecode ==
    [][\A c \in Calls :
           /\ (BudgetFrame(c) /\ Len(stack[c]) = 2 /\ result[c].st = "run"
                   /\ Used(c) <= NatOf(Budget(c))) =>
                  /\ FitsNat(stack[c][2].cnt)
                  /\ NatOf(stack[c][2].cnt) + Used(c) = NatOf(Budget(c))
           /\ (Running(c) /\ Top(stack[c]).k = "vecb" /\ Call(c)' # Call(c)) =>
                  IF Top(stack[c]).cnt = UZero
                  THEN /\ Len(stack[c]') = Len(stack[c]) - 1
                       /\ input[c]' = input[c]
                       /\ result[c]'.st \in {"run", "ok"}
                  ELSE /\ last[c]'.pre = input[c]
                       /\ last[c]'.k = Top(stack[c]).ty.sub[1].k
           /\ (schema.sub[1].k = "vecb" /\ Len(schema.sub) = 1 /\ Done(c)') =>
                  /\ result[c]'.st = "ok" =>
                         Len(Buffer(c)) - schema.sub[1].w - Len(input[c]') = NatOf(Budget(c))
                  /\ (Len(Buffer(c)) >= schema.sub[1].w /\ Budget(c) = UZero) =>
                         /\ result[c]'.st = "ok"
                         /\ result[c]'.v = <<<<>>>>
      ]_vars

\* a budget of two bytes has been decoded into two elements of one byte
C22_Witness ==
    /\ src = "raw"
    /\ schema.sub[1].k = "vecb"
    /\ Len(schema.sub) = 1
    /\ result[1].st = "ok"
    /\ NatOf(Budget(1)) = 2
    /\ Len(result[1].v[1]) = 2
    /\ input[1] = <<>>

\* the depth of the records and sequences of a type
RECURSIVE Depth(_), DepthFrom(_, _)
Depth(ty) == IF ty.sub = <<>> THEN 1 ELSE 1 + DepthFrom(ty.sub, 1)
DepthFrom(sub, i) ==
    IF i > Len(sub) THEN 0
    ELSE LET d == Depth(sub[i])
             r == DepthFrom(sub, i + 1)
         IN IF d > r THEN d ELSE r

\* C23: a from_bytes call never has more SeqAccess objects in progress than
\* its record type is deep, and every element that a byte-budget sequence
\* returns has moved the cursor, so that the remaining budget and the
\* cursor get smaller with every turn of the visitor's loop and the call
\* ends after a number of steps bounded by the size of the input.
C23_Termination ==
    [][\A c \in Calls :
           /\ Len(stack[c]') <= Depth(schema)
           /\ \A j \in 1..Len(stack[c]) :
                  (/\ j <= Len(stack[c]')
                   /\ stack[c][j].k = "vecb"
                   /\ Len(stack[c]'[j].vals) > Len(stack[c][j].vals))
                      => /\ Len(input[c]') < stack[c]'[j].before
                         /\ stack[c]'[j].cnt # stack[c][j].cnt
      ]_vars

Wide == {"u16", "u32", "u64"}

\* the digit of 256^i in the numeral v of n digits
Digit(v, n, i) == v[n - i]

\* C24: the step that writes a u16/u32/u64 v appends exactly 2/4/8 bytes,
\* byte i (from 0) being the digit of 256^i of v, which for a u16 is
\* (v / 256^i) mod 256; decoding these bytes gives v back, and the step does
\* not fail. The step that reads a u16/u32/u64 from a cursor of enough
\* bytes does not fail, returns the value whose digit of 256^i is byte i,
\* and encoding that value gives the bytes back.
C24_EndianCodec ==
    [][/\ \A k \in Wide :
              Writing(k) =>
                  LET v == Head(Top(estack).todo).v
                      n == SizeOf(k)
                      b == SubSeq(output', Len(output) + 1, Len(output'))
                  IN /\ eresult' = "run"
                     /\ Len(output') = Len(output) + n
                     /\ \A i \in 0..(n - 1) : b[i + 1] = Digit(v, n, i)
                     /\ k = "u16" =>
                            \A i \in 0..1 : b[i + 1] = ((256 * v[1] + v[2]) \div (256 ^ i)) % 256
                     /\ NumDe_deserialize(b) = v
       /\ \A c \in Calls : \A k \in Wide :
              (Reading(c, k) /\ Len(input[c]) >= SizeOf(k)) =>
                  LET n == SizeOf(k)
                      b == SubSeq(input[c], 1, n)
                      v == Visited(c)
                  IN /\ result[c]'.st = "run"
                     /\ raised[c]' = raised[c]
                     /\ Len(v) = n
                     /\ \A i \in 0..(n - 1) : Digit(v, n, i) = b[i + 1]
                     /\ k = "u16" => 256 * v[1] + v[2] = b[1] + 256 * b[2]
                     /\ NumSer_serialize(v, n) = b
      ]_vars

\* a u32 and a u64 with unequal digits have been written and read back
C24_Witness ==
    /\ src = "value"
    /\ schema = Rec(<<U32, U64>>)
    /\ output = <<4, 3, 2, 1, 254, 91, 10, 0, 0, 0, 0, 128>>
    /\ result[1] = ROk(value)

\* C25: when from_bytes returns a value for the output of to_bytes, it has
\* consumed the whole output: the cursor holds nothing but the bytes that
\* the caller put behind the output.
C25_ExactConsumption ==
    \A c \in Calls :
        (src = "value" /\ result[c].st = "ok") =>
            input[c] = (IF c = 2 THEN tail ELSE <<>>)

C27_CountSentinel ==
    \A c \in Calls :
        /\ result[c].e # "add overflow"
        /\ \A j \in 1..Len(stack[c]) :
               stack[c][j].k = "vec" => stack[c][j].cnt # UZero

\* C28: the step that writes a byte slice with serialize_bytes succeeds and
\* leaves the output as it is; the step that reads one with
\* deserialize_bytes succeeds, gives the visitor all the bytes that are left
\* and leaves the cursor as it is; the step that writes a length-prefixed
\* string appends, behind the prefix, every byte of the string, which
\* therefore does not go through serialize_bytes.
C28_RawBytes ==
    [][/\ Writing("bytes") =>
              /\ output' = output
              /\ eresult' = "run"
              /\ estack' = Advance(estack)
       /\ \A c \in Calls :
              Reading(c, "bytes") =>
                  /\ Visited(c) = input[c]
                  /\ input[c]' = input[c]
                  /\ result[c]'.st = "run"
                  /\ raised[c]' = raised[c]
       /\ Writing("strlv") =>
              LET item == Head(Top(estack).todo)
                  from == Len(output) + item.ty.w
              IN /\ Len(output') = from + Len(item.v)
                 /\ \A i \in 1..Len(item.v) : output'[from + i] = item.v[i]
      ]_vars

\* a byte slice of two bytes has been written as nothing, and the decode of
\* the output has given the one byte left in the input as the slice
C28_Witness ==
    /\ src = "value"
    /\ schema \in BytesTypes
    /\ value[2] = <<1, 2>>
    /\ eresult = "ok"
    /\ output = <<value[1], value[3]>>
    /\ result[1] = ROk(<<value[1], <<value[3]>>, value[3]>>)
    /\ input[1] = <<>>

====
